---- MODULE Spec2Model ----
(***************************************************************************)
(* PineconeRerank (langchain_pinecone/reranker.py): a document compressor  *)
(* that sends the texts of the input documents to Pinecone's rerank        *)
(* endpoint and maps the returned (index, score) entries back onto copies  *)
(* of the input documents.                                                 *)
(*                                                                         *)
(* Python objects that are mutable and shared by reference (the metadata   *)
(* dicts) live in `heap`; a document holds the reference of its dict.      *)
(* Scores are exact binary fractions written in millionths (15625 is       *)
(* 1/64 = 0.015625), so that round(score, 4) is exactly the round-half-    *)
(* even of the decimal value.                                              *)
(***************************************************************************)
EXTENDS Integers, Sequences, FiniteSets, TLC

VARIABLES
    self,       \* the adapter's fields: client, model, top_n, truncation
    init_data,  \* the keyword arguments the adapter was constructed with
    pc,         \* "new", "failed", "idle", "wait", "answered", "done"
    mode,       \* "sync" (compress_documents), "async" (acompress_documents)
    documents,  \* the caller's input sequence
    query,      \* the caller's query
    heap,       \* the metadata dicts, by reference
    requests,   \* the calls of client.inference.rerank made by the invocation
    response,   \* what the remote call produced
    result      \* what the invocation produced: a return value or an exception

vars == <<self, init_data, pc, mode, documents, query, heap, requests, response, result>>

----------------------------------------------------------------------------
(* Bounds of the model *)

MaxDocs == 2
MaxResp == 2

----------------------------------------------------------------------------
(* Values *)

None == <<>>
Some(v) == <<v>>

NoClient == [cls |-> "NoneType", origin |-> "class attribute"]
CallerClient == [cls |-> "Pinecone", origin |-> "caller"]
Pinecone == [cls |-> "Pinecone", origin |-> "Pinecone()"]

\* class attributes, lines 16-23
ClassDefaults ==
    [client |-> NoClient, model |-> "pinecone-rerank-v0", top_n |-> Some(5),
     truncation |-> "END"]

\* keyword arguments a caller constructs the adapter with
KwargsSet ==
    { <<>>,
      [client |-> CallerClient, top_n |-> Some(1)],
      [model |-> "bge-reranker-v2-m3", top_n |-> None, truncation |-> "NONE"],
      [client |-> CallerClient, model |-> "bge-reranker-v2-m3",
       top_n |-> Some(1), truncation |-> "NONE"] }

Queries == {"q1", "q2"}

EmptyDict == [k \in {} |-> 0]

\* the elements a caller passes in `documents`: Documents (text and a
\* metadata dict) and raw strings
InputItems ==
    { [kind |-> "Document", page_content |-> "alpha", metadata |-> [page |-> 1]],
      [kind |-> "Document", page_content |-> "beta",
       metadata |-> [page |-> 2, relevance_score |-> 990000]],
      [kind |-> "str", value |-> "raw"] }

\* scores in millionths: 0.015625 (rounds down), 0.03125 (a tie, rounds to
\* the even 0.0312), 0.046875 (rounds up)
Scores == {15625, 31250, 46875}

RemoteErrors == {"NetworkError", "AuthError", "MalformedResponse"}

RECURSIVE SeqsUpTo(_, _)
SeqsUpTo(S, n) ==
    IF n = 0 THEN {<<>>}
    ELSE LET shorter == SeqsUpTo(S, n - 1)
         IN shorter \cup {Append(s, e) : s \in {t \in shorter : Len(t) = n - 1}, e \in S}

\* the entries of a response: the remote service is not constrained by this
\* code, so an index may repeat, be out of range or be negative
ResultEntries == [index : (-1)..MaxDocs, score : Scores]

NoResponse == [kind |-> "none", data |-> <<>>, error |-> ""]
NoResult == [status |-> "none", value |-> <<>>, error |-> ""]

----------------------------------------------------------------------------
(* Helpers translated from the code *)

Get(kwargs, key, default) ==
    IF key \in DOMAIN kwargs THEN kwargs[key] ELSE default

\* super().__init__(**data), line 30: fields from data, else class attributes
BaseModelInit(data) ==
    [client |-> Get(data, "client", ClassDefaults.client),
     model |-> Get(data, "model", ClassDefaults.model),
     top_n |-> Get(data, "top_n", ClassDefaults.top_n),
     truncation |-> Get(data, "truncation", ClassDefaults.truncation)]

\* variant: a client given by the caller is kept
ConstructedClient_keep(given) == IF given = NoClient THEN Pinecone ELSE given

\* self.client = Pinecone(), line 31
ConstructedClient(given) == Pinecone

\* variant: no early return
IsEmptyInput_never(docs) == FALSE

\* len(documents) == 0, lines 98 and 127
IsEmptyInput(docs) == Len(docs) = 0

\* doc.page_content if isinstance(doc, Document) else doc, lines 45-47
TextOf(doc) == IF doc.kind = "Document" THEN doc.page_content ELSE doc.value

Texts(docs) == [k \in 1..Len(docs) |-> TextOf(docs[k])]

\* variant: the class default of top_n instead of the adapter's
_rerank_default_top_n(slf, docs, q) ==
    [client |-> slf.client,
     model |-> slf.model,
     query |-> q,
     documents |-> Texts(docs),
     top_n |-> ClassDefaults.top_n,
     return_documents |-> TRUE,
     parameters |-> [truncate |-> slf.truncation]]

\* the keyword arguments of self.client.inference.rerank, lines 48-55
_rerank(slf, docs, q) ==
    [client |-> slf.client,
     model |-> slf.model,
     query |-> q,
     documents |-> Texts(docs),
     top_n |-> slf.top_n,
     return_documents |-> TRUE,
     parameters |-> [truncate |-> slf.truncation]]

\* the keyword arguments of the call of lines 69-79, whose value is awaited
_arerank(slf, docs, q) ==
    [client |-> slf.client,
     model |-> slf.model,
     query |-> q,
     documents |-> Texts(docs),
     top_n |-> slf.top_n,
     return_documents |-> TRUE,
     parameters |-> [truncate |-> slf.truncation]]

\* whether the value of client.inference.rerank(...) can be awaited (line 72).
\* The client is always the synchronous Pinecone() of line 31, the one whose
\* rerank value line 103 reads .data from; that value is the result itself,
\* not an awaitable, and awaiting it raises TypeError
IsAwaitable(client) == client.cls = "PineconeAsyncio"

\* documents[i] of a Python sequence of length n: the 1-based position, or 0
\* for IndexError
Subscript(n, i) ==
    IF 0 <= i /\ i < n THEN i + 1
    ELSE IF -n <= i /\ i < 0 THEN n + i + 1
    ELSE 0

\* variant: truncation to 4 decimal places
round4_floor(score) == (score \div 100) * 100

\* round(score, 4) on millionths: nearest multiple of 100, ties to even
round4(score) ==
    LET q == score \div 100
        r == score % 100
    IN IF r < 50 THEN q * 100
       ELSE IF r > 50 THEN (q + 1) * 100
       ELSE IF q % 2 = 0 THEN q * 100 ELSE (q + 1) * 100

\* variant: the dict itself, no copy
deepcopy_alias(h, ref) == [heap |-> h, ref |-> ref]

\* deepcopy(doc.metadata): a new dict with the same items (values are ints)
deepcopy(h, ref) == [heap |-> Append(h, h[ref]), ref |-> Len(h) + 1]

\* Document(page_content, metadata=...)
Document(page_content, metadataRef) ==
    [kind |-> "Document", page_content |-> page_content, metadata |-> metadataRef]

\* d[key] = value on the dict at ref
SetItem(h, ref, key, value) ==
    [h EXCEPT ![ref] =
        [k \in DOMAIN h[ref] \cup {key} |-> IF k = key THEN value ELSE h[ref][k]]]

\* variant: the copy is appended twice
AppendDoc_twice(compressed, doc_copy) == Append(Append(compressed, doc_copy), doc_copy)

\* compressed.append(doc_copy)
AppendDoc(compressed, doc_copy) == Append(compressed, doc_copy)

Returned(compressed, h) ==
    [status |-> "returned", value |-> compressed, error |-> "", heap |-> h]

Raised(error, h) ==
    [status |-> "raised", value |-> <<>>, error |-> error, heap |-> h]

\* the loop of lines 103-108 (and 132-137) from entry k of results.data
RECURSIVE CompressLoop(_, _, _, _, _)
CompressLoop(docs, data, k, compressed, h) ==
    IF k > Len(data) THEN Returned(compressed, h)
    ELSE LET res == data[k]
             pos == Subscript(Len(docs), res.index)
         IN IF pos = 0 THEN Raised("IndexError", h)
            ELSE IF docs[pos].kind # "Document" THEN Raised("AttributeError", h)
            ELSE LET doc == docs[pos]
                     cp == deepcopy(h, doc.metadata)
                     doc_copy == Document(doc.page_content, cp.ref)
                     h2 == SetItem(cp.heap, doc_copy.metadata, "relevance_score",
                                   round4(res.score))
                 IN CompressLoop(docs, data, k + 1, AppendDoc(compressed, doc_copy), h2)

\* variant: the entries sorted locally by descending score
RECURSIVE SortedByScore(_)
SortedByScore(data) ==
    IF Len(data) <= 1 THEN data
    ELSE LET m == CHOOSE i \in 1..Len(data) :
                    /\ \A j \in 1..Len(data) : data[j].score <= data[i].score
                    /\ \A j \in 1..(i - 1) : data[j].score < data[i].score
             rest == [j \in 1..(Len(data) - 1) |-> IF j < m THEN data[j] ELSE data[j + 1]]
         IN <<data[m]>> \o SortedByScore(rest)

ResultsData_sorted(results) == SortedByScore(results.data)

\* results.data, lines 103 and 132: the entries in the order of the response
ResultsData(results) == results.data

\* variant: the error is caught and an empty list returned
RemoteErrorResult_swallow(error, h) == Returned(<<>>, h)

\* an error raised by the remote call: nothing catches it
RemoteErrorResult(error, h) == Raised(error, h)

----------------------------------------------------------------------------
(* State machine *)

Init ==
    /\ self = ClassDefaults
    /\ init_data = <<>>
    /\ pc = "new"
    /\ mode = "none"
    /\ documents = <<>>
    /\ query = ""
    /\ heap = <<>>
    /\ requests = <<>>
    /\ response = NoResponse
    /\ result = NoResult

\* PineconeRerank(**data), lines 29-31; Pinecone() may raise
PineconeRerank_init ==
    /\ pc = "new"
    /\ \E data \in KwargsSet, clientOk \in BOOLEAN :
          /\ IF clientOk
             THEN /\ self' = [BaseModelInit(data) EXCEPT
                                 !.client = ConstructedClient(BaseModelInit(data).client)]
                  /\ pc' = "idle"
             ELSE /\ self' = BaseModelInit(data)
                  /\ pc' = "failed"
          /\ init_data' = data
    /\ UNCHANGED <<mode, documents, query, heap, requests, response, result>>

\* the caller's arguments: the items become objects, each Document with its
\* own metadata dict on the heap
Place(items) ==
    [k \in 1..Len(items) |->
        IF items[k].kind = "Document" THEN [items[k] EXCEPT !.metadata = k]
        ELSE items[k]]

\* slot k is the dict of input document k (unused when element k is a string)
HeapOf(items) ==
    [k \in 1..Len(items) |->
        IF items[k].kind = "Document" THEN items[k].metadata ELSE EmptyDict]

Enter(m, items, q, request) ==
    /\ pc = "idle"
    /\ mode' = m
    /\ documents' = Place(items)
    /\ query' = q
    /\ heap' = HeapOf(items)
    /\ response' = NoResponse
    /\ IF IsEmptyInput(items)
       THEN /\ requests' = <<>>
            /\ result' = [status |-> "returned", value |-> <<>>, error |-> ""]
            /\ pc' = "done"
       ELSE /\ requests' = <<request>>
            /\ result' = NoResult
            /\ pc' = "wait"
    /\ UNCHANGED <<self, init_data>>

\* compress_documents, lines 98-102 up to the remote call
compress_documents ==
    \E items \in SeqsUpTo(InputItems, MaxDocs), q \in Queries :
        Enter("sync", items, q, _rerank(self, Place(items), q))

\* acompress_documents, lines 127-131 up to the remote call
acompress_documents ==
    \E items \in SeqsUpTo(InputItems, MaxDocs), q \in Queries :
        Enter("async", items, q, _arerank(self, Place(items), q))

\* the remote service answers the request or the client raises
RemoteRerank ==
    /\ pc = "wait"
    /\ \/ \E data \in SeqsUpTo(ResultEntries, MaxResp) :
             response' = [kind |-> "ok", data |-> data, error |-> ""]
       \/ \E e \in RemoteErrors :
             response' = [kind |-> "error", data |-> <<>>, error |-> e]
    /\ pc' = "answered"
    /\ UNCHANGED <<self, init_data, mode, documents, query, heap, requests, result>>

Finish(outcome) ==
    /\ result' = [status |-> outcome.status, value |-> outcome.value,
                  error |-> outcome.error]
    /\ heap' = outcome.heap
    /\ pc' = "done"
    /\ UNCHANGED <<self, init_data, mode, documents, query, requests, response>>

\* compress_documents, lines 102-108 from the return of the remote call
compress_documents_resume ==
    /\ pc = "answered"
    /\ mode = "sync"
    /\ Finish(IF response.kind = "error"
              THEN RemoteErrorResult(response.error, heap)
              ELSE CompressLoop(documents, ResultsData(response), 1, <<>>, heap))

\* acompress_documents, lines 131-137: the value of the call is awaited
acompress_documents_resume ==
    /\ pc = "answered"
    /\ mode = "async"
    /\ Finish(IF response.kind = "error"
              THEN RemoteErrorResult(response.error, heap)
              ELSE IF ~IsAwaitable(self.client)
              THEN Raised("TypeError", heap)
              ELSE CompressLoop(documents, ResultsData(response), 1, <<>>, heap))

\* the return value or the exception reaches the caller; the locals of the
\* invocation are gone and the adapter can be invoked again
ReturnToCaller ==
    /\ pc = "done"
    /\ pc' = "idle"
    /\ mode' = "none"
    /\ documents' = <<>>
    /\ query' = ""
    /\ heap' = <<>>
    /\ requests' = <<>>
    /\ response' = NoResponse
    /\ result' = NoResult
    /\ UNCHANGED <<self, init_data>>

Next ==
    \/ PineconeRerank_init
    \/ compress_documents
    \/ acompress_documents
    \/ RemoteRerank
    \/ compress_documents_resume
    \/ acompress_documents_resume
    \/ ReturnToCaller

Spec == Init /\ [][Next]_vars

----------------------------------------------------------------------------
(* Properties *)

InInvocation == pc \in {"wait", "answered", "done"}

HasReturned == pc = "done" /\ result.status = "returned"

HasRaised == pc = "done" /\ result.status = "raised"

InputText(k) ==
    IF documents[k].kind = "Document" THEN documents[k].page_content
    ELSE documents[k].value

InputMetadata(k) == heap[documents[k].metadata]

OutputMetadata(k) == heap[result.value[k].metadata]

Min(a, b) == IF a <= b THEN a ELSE b

\* min(top_n, input length), the input length when top_n is None
Limit ==
    IF self.top_n = None THEN Len(documents)
    ELSE Min(self.top_n[1], Len(documents))

\* r is a multiple of 0.0001 nearest to s (both in millionths)
IsRounded4(r, s) == r % 100 = 0 /\ 2 * (r - s) <= 100 /\ 2 * (s - r) <= 100

\* C1: an invocation with an empty input sequence returns an empty sequence
\* and makes no rerank request, in both variants and for every query and
\* configuration.
C1_EmptyInput ==
    (InInvocation /\ Len(documents) = 0) =>
        /\ HasReturned
        /\ result.value = <<>>
        /\ Len(requests) = 0

C1_Witness ==
    /\ HasReturned
    /\ mode = "async"
    /\ Len(documents) = 0
    /\ self.top_n = None

C4_InputsUntouched ==
    /\ [][/\ pc # "new" => self' = self
          /\ pc \in {"wait", "answered"} =>
                /\ documents' = documents
                /\ Len(heap') >= Len(heap)
                /\ \A r \in 1..Len(heap) : heap'[r] = heap[r]]_vars
    /\ [](HasReturned =>
            \A j \in 1..Len(result.value) :
                /\ result.value[j].metadata > Len(documents)
                /\ \A k \in 1..Len(result.value) :
                       j # k => result.value[j].metadata # result.value[k].metadata)

C4_Witness ==
    /\ HasReturned
    /\ Len(documents) = 1
    /\ Len(result.value) = 2
    /\ response.data[1].index = response.data[2].index
    /\ "relevance_score" \notin DOMAIN InputMetadata(1)
    /\ OutputMetadata(1)["relevance_score"] # OutputMetadata(2)["relevance_score"]

C6_ErrorPropagates ==
    (pc = "done" /\ response.kind = "error") =>
        /\ result.status = "raised"
        /\ result.error = response.error
        /\ result.value = <<>>
        /\ Len(requests) = 1

C6_Witness ==
    /\ HasRaised
    /\ mode = "sync"
    /\ response.kind = "error"
    /\ result.error = "AuthError"
    /\ Len(documents) = 2

\* what compress_documents produces for the same adapter, input and remote
\* outcome
SyncOutcome ==
    IF Len(documents) = 0 THEN Returned(<<>>, <<>>)
    ELSE IF response.kind = "error" THEN Raised(response.error, <<>>)
    ELSE CompressLoop(documents, response.data, 1, <<>>,
                      SubSeq(heap, 1, Len(documents)))

ViewOf(value, h) ==
    [k \in 1..Len(value) |->
        [page_content |-> value[k].page_content, metadata |-> h[value[k].metadata]]]

\* C7: acompress_documents has the contract of compress_documents: for the
\* same adapter, input, query and remote outcome it issues the same request
\* and produces the same result (equal output, or the same error).
C7_SameContract ==
    (pc = "done" /\ mode = "async") =>
        /\ requests = (IF Len(documents) = 0 THEN <<>>
                       ELSE <<_rerank(self, documents, query)>>)
        /\ result.status = SyncOutcome.status
        /\ result.error = SyncOutcome.error
        /\ ViewOf(result.value, heap) = ViewOf(SyncOutcome.value, SyncOutcome.heap)

\* C8: for a non-empty input holding a raw string and a well-formed response
\* that reports that element's index, compress_documents returns an output
\* entry with that element's text and a relevance_score.
C8_RawText ==
    (/\ pc = "done"
     /\ mode = "sync"
     /\ response.kind = "ok"
     /\ \A k \in 1..Len(response.data) :
            response.data[k].index \in 0..(Len(documents) - 1)
     /\ \E k \in 1..Len(response.data) :
            documents[response.data[k].index + 1].kind = "str")
    =>
        /\ result.status = "returned"
        /\ \A k \in 1..Len(response.data) :
              documents[response.data[k].index + 1].kind = "str" =>
                  /\ result.value[k].page_content = InputText(response.data[k].index + 1)
                  /\ "relevance_score" \in DOMAIN OutputMetadata(k)

\* C9: an invocation with a non-empty input makes exactly one rerank request,
\* before any output document is built, carrying the texts of all input
\* documents in input order, the query, the adapter's model and top_n, the
\* truncation as parameters.truncate, and return_documents true.
C9_OneRequest ==
    (InInvocation /\ Len(documents) > 0) =>
        /\ Len(requests) = 1
        /\ requests[1].documents = [k \in 1..Len(documents) |-> InputText(k)]
        /\ requests[1].query = query
        /\ requests[1].model = self.model
        /\ requests[1].top_n = self.top_n
        /\ requests[1].parameters = [truncate |-> self.truncation]
        /\ requests[1].return_documents = TRUE
        /\ pc \in {"wait", "answered"} =>
              (result.value = <<>> /\ Len(heap) = Len(documents))

C9_Witness ==
    /\ pc = "wait"
    /\ mode = "async"
    /\ Len(documents) = 2
    /\ documents[1].kind = "str"
    /\ documents[2].kind = "Document"
    /\ self.top_n = None
    /\ query = "q2"
    /\ Len(requests) = 1

====
